---- MODULE Spec2Model ----
(***************************************************************************)
(* Model of process.py: a single forward pass over logs/log.txt that       *)
(* copies DEBUG lines to logs/debug.txt, copies INFO lines after the first *)
(* eight to logs/info.txt, extracts DECIDE and leader events from those    *)
(* INFO lines with two regular expressions, and writes summary.txt.        *)
(*                                                                         *)
(* A str is a sequence of digits where the code converts or compares it    *)
(* (ids, values, times).  A log line is a record of its leading tag and of *)
(* the groups each regular expression captures in it (<<>> when the        *)
(* expression does not match).                                             *)
(***************************************************************************)
EXTENDS Integers, Sequences, FiniteSets, TLC

\* ------------------------------------------------------------------ bounds
\* INFO lines read after the skipped ones (caps info_count and info_file).
MaxBody == 3
\* DEBUG lines in the log (caps debug_file).
MaxDebug == 2

\* --------------------------------------------------------------- constants
\* process.py:35, the number of leading INFO lines that are skipped.
SkipCount == 8

\* ------------------------------------------------------------------ inputs
NoMatch == <<>>

MkLine(tag, text, decide, leader) ==
    [tag |-> tag, text |-> text, decide |-> decide, leader |-> leader]

\* INFO lines of logs/log.txt: decide holds pattern1's groups (actor, value),
\* leader holds pattern2's groups (process, value, time).
InfoLines ==
    { MkLine("INFO", "starting", NoMatch, NoMatch),
      MkLine("INFO", "Actor01 DECIDE proposal [5]", << <<0, 1>>, <<5>> >>, NoMatch),
      MkLine("INFO", "Actor2 DECIDE proposal [9]", << <<2>>, <<9>> >>, NoMatch),
      MkLine("INFO", "Process [1] value [5] : 4ms", NoMatch, << <<1>>, <<5>>, <<4>> >>),
      MkLine("INFO", "Process [2] value [5] : 06ms", NoMatch, << <<2>>, <<5>>, <<0, 6>> >>),
      MkLine("INFO", "Process [3] value [9] : 10ms", NoMatch, << <<3>>, <<9>>, <<1, 0>> >>),
      MkLine("INFO", "Actor3 DECIDE proposal [5] Process [2] value [5] : 8ms",
             << <<3>>, <<5>> >>, << <<2>>, <<5>>, <<8>> >>) }

DebugLines ==
    { MkLine("DEBUG", "received READ", NoMatch, NoMatch),
      MkLine("DEBUG", "received ACK", NoMatch, NoMatch) }

UntaggedLines ==
    { MkLine("NONE", "WARN dead letters", NoMatch, NoMatch) }

Lines == InfoLines \cup DebugLines \cup UntaggedLines

\* Contents of param.txt; Missing stands for a file that cannot be opened.
Missing == << "missing" >>
ParamFiles == { <<>>, << "N = 3", "f = 1" >>, Missing }

\* ----------------------------------------------------------------- helpers
\* line.startswith('[INFO]') / line.startswith('[DEBUG]')
startswith(l, tag) == l.tag = tag

\* pattern1.search(line), pattern2.search(line): the groups, or NoMatch.
pattern1(l) == l.decide
pattern2(l) == l.leader

\* int(s) of a digit string.
RECURSIVE int(_)
int(s) ==
    IF Len(s) = 0 THEN 0
    ELSE 10 * int(SubSeq(s, 1, Len(s) - 1)) + s[Len(s)]

\* The initial decide_value, -1: an int, equal to no str.
NoValue == << -1 >>

\* Mutant: the threshold test off by one (info_count > 8).
PastThresholdOff(n) == n > SkipCount

\* Mutant: the threshold test off by one the other way (info_count >= 7).
PastThresholdEarly(n) == n >= SkipCount - 1

\* info_count >= 8 (line 35)
PastThreshold(n) == n >= SkipCount

\* Mutant: the reference value is not latched, every event sets it.
SetReferenceLast(dv, dvw, value) == value

\* Mutant: the reference value is never set, it stays -1.
SetReferenceNever(dv, dvw, value) == dv

\* lines 42-44 and 58-60: the reference value after an event with this value.
SetReference(dv, dvw, value) ==
    IF dvw = FALSE /\ dv = NoValue THEN value ELSE dv

\* The formatted lines stored in node_info (lines 47, 52, 63, 68).
NodeLine(actor, value, uncheck) ==
    [label |-> "NODE", id |-> actor, value |-> value, time |-> <<>>,
     uncheck |-> uncheck]

LeaderLine(process, value, time, uncheck) ==
    [label |-> "LEADER", id |-> process, value |-> value, time |-> time,
     uncheck |-> uncheck]

\* node_info[k] = v
DictSet(d, k, v) ==
    [x \in (DOMAIN d) \cup {k} |-> IF x = k THEN v ELSE d[x]]

EmptyDict == [x \in {} |-> 0]

\* lines 42-44 and 58-60: the decide_value_write flag after an event.
SetLatch(dv, dvw) ==
    IF dvw = FALSE /\ dv = NoValue THEN TRUE ELSE dvw

\* Mutant: an agreeing event overwrites the entry of a seen id.
NodeInfoLastWins(d, seen, id, ref, value, bad, good) ==
    IF ref # value THEN DictSet(d, id, bad) ELSE DictSet(d, id, good)

\* Mutant: a disagreeing event is dropped when its id was seen.
NodeInfoFirstWins(d, seen, id, ref, value, bad, good) ==
    IF id \in seen THEN d
    ELSE IF ref # value THEN DictSet(d, id, bad)
    ELSE DictSet(d, id, good)

\* Mutant: an agreeing event replaces a stored uncheck entry.
NodeInfoClearsUncheck(d, seen, id, ref, value, bad, good) ==
    IF ref # value THEN DictSet(d, id, bad)
    ELSE IF id \notin seen THEN DictSet(d, id, good)
    ELSE IF d[id].uncheck THEN DictSet(d, id, good)
    ELSE d

\* lines 45-52 and 61-68: node_info after an event for id whose value is
\* compared with the reference ref; bad and good are its two formatted lines.
NodeInfoAfter(d, seen, id, ref, value, bad, good) ==
    IF ref # value THEN DictSet(d, id, bad)
    ELSE IF id \notin seen THEN DictSet(d, id, good)
    ELSE d

\* Mutant: the comparison inverted.
FlagInverted(c, ref, value) ==
    IF ref = value THEN FALSE ELSE c

\* Mutant: the flag is recomputed at every event.
FlagReset(c, ref, value) == ref = value

\* Mutant: the uncheck branch does not clear the flag.
FlagForgotten(c, ref, value) == c

\* lines 45-48 and 61-64: the concurrency flag after an event.
FlagAfter(c, ref, value) ==
    IF ref # value THEN FALSE ELSE c

\* Mutant: every agreeing leader event is added, seen id or not.
TimeSumEvery(ts, seen, id, ref, value, time) ==
    IF ref # value THEN ts ELSE ts + int(time)

\* lines 61-70: time_sum and time_count after a leader event.
TimeSumAfter(ts, seen, id, ref, value, time) ==
    IF ref # value THEN ts
    ELSE IF id \notin seen THEN ts + int(time)
    ELSE ts

\* Mutant: every agreeing leader event is counted, seen id or not.
TimeCountEvery(tc, seen, id, ref, value) ==
    IF ref # value THEN tc ELSE tc + 1

TimeCountAfter(tc, seen, id, ref, value) ==
    IF ref # value THEN tc
    ELSE IF id \notin seen THEN tc + 1
    ELSE tc

\* Mutant: the id is added in the else branch only.
SeenAfterElseOnly(seen, id, ref, value) ==
    IF ref # value THEN seen ELSE seen \cup {id}

\* lines 53 and 71: node_number after an event, whichever branch it took.
SeenAfter(seen, id, ref, value) == seen \cup {id}

\* Mutant: pattern2 is tried first.
BranchLeaderFirst(l) ==
    IF pattern2(l) # NoMatch THEN "leader"
    ELSE IF pattern1(l) # NoMatch THEN "decide"
    ELSE "none"

\* lines 39 and 54: the branch a pattern-matched line takes, pattern1 first.
Branch(l) ==
    IF pattern1(l) # NoMatch THEN "decide"
    ELSE IF pattern2(l) # NoMatch THEN "leader"
    ELSE "none"

\* line 35: the line goes to info.txt and is pattern-matched.
WritesInfo(l, n) == startswith(l, "INFO") /\ PastThreshold(n)

\* Mutant: DEBUG lines are skipped until the threshold, like INFO lines.
WritesDebugGated(l, n) == startswith(l, "DEBUG") /\ PastThreshold(n)

\* line 72: the elif branch, the line goes to debug.txt.
WritesDebug(l, n) == ~WritesInfo(l, n) /\ startswith(l, "DEBUG")

\* Mutant: every line is counted, tagged [INFO] or not.
CountEveryLine(l, n) == n + 1

\* lines 75-76
CountAfter(l, n) == IF startswith(l, "INFO") THEN n + 1 ELSE n

\* Mutant: the keys in descending order.
RECURSIVE sortedDescending(_)
sortedDescending(keys) ==
    IF keys = {} THEN <<>>
    ELSE LET m == CHOOSE k \in keys : \A j \in keys : k >= j
         IN <<m>> \o sortedDescending(keys \ {m})

\* sorted(node_info): the keys in ascending order.
RECURSIVE sorted(_)
sorted(keys) ==
    IF keys = {} THEN <<>>
    ELSE LET m == CHOOSE k \in keys : \A j \in keys : k <= j
         IN <<m>> \o sorted(keys \ {m})

\* time_sum / time_count (line 79, time_count > 0): the quotient as a
\* fraction in lowest terms.
RECURSIVE GCD(_, _)
GCD(a, b) == IF b = 0 THEN a ELSE GCD(b, a % b)

Average(ts, tc) ==
    LET g == GCD(ts, tc) IN << ts \div g, tc \div g >>

\* The lines written to summary.txt (lines 78-86).
Banner == [kind |-> "banner"]
AverageLine(ts, tc) == [kind |-> "average", q |-> Average(ts, tc)]
ParamHeader == [kind |-> "paramheader"]
ParamLine(s) == [kind |-> "param", text |-> s]
NodeHeader == [kind |-> "nodeheader"]
NodeEntry(s) == [kind |-> "node", text |-> s]

BannerPart(c) == IF c = FALSE THEN << Banner >> ELSE <<>>

ParamPart(pf) == [i \in 1..Len(pf) |-> ParamLine(pf[i])]

NodePart(d) ==
    LET order == sorted(DOMAIN d)
    IN [i \in 1..Len(order) |-> NodeEntry(d[order[i]])]

\* Mutant: the other layout, node entries first and the banner after them.
SummaryNodesFirst(c, ts, tc, pf, d) ==
    NodePart(d) \o BannerPart(c) \o << AverageLine(ts, tc), ParamHeader >>
        \o ParamPart(pf) \o << NodeHeader >>

\* lines 77-86: the lines of summary.txt in a run that completes.
SummaryLines(c, ts, tc, pf, d) ==
    BannerPart(c) \o << AverageLine(ts, tc), ParamHeader >>
        \o ParamPart(pf) \o << NodeHeader >> \o NodePart(d)

\* ------------------------------------------------------------------- state
VARIABLES
    pc,                  \* "scan" in the loop, "done", or "crashed"
    error,               \* the exception that ended the run, or "none"
    line,                \* the loop variable: the line read last
    info_count,
    decide_value,
    decide_value_write,
    concurrency,
    node_number,
    node_info,
    time_sum,
    time_count,
    info_file,           \* logs/info.txt
    debug_file,          \* logs/debug.txt
    summary_file,        \* summary.txt
    infos_read,          \* history: the number of INFO lines read so far
    param_read           \* history: the lines read from param.txt

vars == << pc, error, line, info_count, decide_value, decide_value_write,
           concurrency, node_number, node_info, time_sum, time_count,
           info_file, debug_file, summary_file, infos_read, param_read >>

NoLine == MkLine("NONE", "", NoMatch, NoMatch)

Init ==
    /\ pc = "scan"
    /\ error = "none"
    /\ line = NoLine
    /\ info_count = 0
    /\ decide_value = NoValue
    /\ decide_value_write = FALSE
    /\ concurrency = TRUE
    /\ node_number = {}
    /\ node_info = EmptyDict
    /\ time_sum = 0
    /\ time_count = 0
    /\ info_file = <<>>
    /\ debug_file = <<>>
    /\ summary_file = <<>>
    /\ infos_read = 0
    /\ param_read = <<>>

\* lines 39-53: the line matches pattern1.
DecideBranch(m) ==
    LET actor == int(m[1])
        value == m[2]
        ref == SetReference(decide_value, decide_value_write, value)
    IN /\ decide_value' = ref
       /\ decide_value_write' = SetLatch(decide_value, decide_value_write)
       /\ node_info' = NodeInfoAfter(node_info, node_number, actor, ref, value,
                                     NodeLine(actor, value, TRUE),
                                     NodeLine(actor, value, FALSE))
       /\ concurrency' = FlagAfter(concurrency, ref, value)
       /\ node_number' = SeenAfter(node_number, actor, ref, value)
       /\ UNCHANGED << time_sum, time_count >>

\* lines 54-71: the line matches pattern2 and not pattern1.
LeaderBranch(m) ==
    LET process == int(m[1])
        value == m[2]
        time == m[3]
        ref == SetReference(decide_value, decide_value_write, value)
    IN /\ decide_value' = ref
       /\ decide_value_write' = SetLatch(decide_value, decide_value_write)
       /\ node_info' = NodeInfoAfter(node_info, node_number, process, ref, value,
                                     LeaderLine(process, value, time, TRUE),
                                     LeaderLine(process, value, time, FALSE))
       /\ concurrency' = FlagAfter(concurrency, ref, value)
       /\ time_sum' = TimeSumAfter(time_sum, node_number, process, ref, value, time)
       /\ time_count' = TimeCountAfter(time_count, node_number, process, ref, value)
       /\ node_number' = SeenAfter(node_number, process, ref, value)

\* lines 33-76: one iteration of the loop over the log, reading l.
ReadLine(l) ==
    /\ pc = "scan"
    /\ startswith(l, "INFO") => info_count < SkipCount + MaxBody
    /\ startswith(l, "DEBUG") => Len(debug_file) < MaxDebug
    /\ line' = l
    /\ IF WritesInfo(l, info_count)
       THEN /\ info_file' = Append(info_file, l)
            /\ debug_file' = debug_file
            /\ IF Branch(l) = "decide" THEN DecideBranch(pattern1(l))
               ELSE IF Branch(l) = "leader" THEN LeaderBranch(pattern2(l))
               ELSE UNCHANGED << decide_value, decide_value_write, node_info,
                                 concurrency, node_number, time_sum, time_count >>
       ELSE /\ info_file' = info_file
            /\ debug_file' = IF WritesDebug(l, info_count)
                             THEN Append(debug_file, l) ELSE debug_file
            /\ UNCHANGED << decide_value, decide_value_write, node_info,
                            concurrency, node_number, time_sum, time_count >>
    /\ info_count' = CountAfter(l, info_count)
    /\ infos_read' = IF l.tag = "INFO" THEN infos_read + 1 ELSE infos_read
    /\ UNCHANGED << pc, error, summary_file, param_read >>

\* lines 77-86: the end of the log; pf is param.txt.
WriteSummary(pf) ==
    /\ pc = "scan"
    /\ IF time_count = 0
       THEN /\ summary_file' = BannerPart(concurrency)
            /\ param_read' = param_read
            /\ pc' = "crashed"
            /\ error' = "ZeroDivisionError"
       ELSE IF pf = Missing
       THEN /\ summary_file' = BannerPart(concurrency)
                 \o << AverageLine(time_sum, time_count), ParamHeader >>
            /\ param_read' = param_read
            /\ pc' = "crashed"
            /\ error' = "FileNotFoundError"
       ELSE /\ summary_file' = SummaryLines(concurrency, time_sum, time_count,
                                             pf, node_info)
            /\ param_read' = pf
            /\ pc' = "done"
            /\ error' = "none"
    /\ UNCHANGED << line, info_count, decide_value, decide_value_write,
                    concurrency, node_number, node_info, time_sum, time_count,
                    info_file, debug_file, infos_read >>

Next ==
    \/ \E l \in Lines : ReadLine(l)
    \/ \E pf \in ParamFiles : WriteSummary(pf)

Spec == Init /\ [][Next]_vars

\* ---------------------------------------------------------------- events
\* The events of a sequence f of INFO lines, read off the lines themselves:
\* a line that matches pattern1 is a Decide event, a line that matches only
\* pattern2 is a Leader event.
IsDecide(l) == l.decide # NoMatch
IsLeader(l) == l.decide = NoMatch /\ l.leader # NoMatch
IsEvent(l) == IsDecide(l) \/ IsLeader(l)
EventId(l) == IF IsDecide(l) THEN int(l.decide[1]) ELSE int(l.leader[1])
EventValue(l) == IF IsDecide(l) THEN l.decide[2] ELSE l.leader[2]
EventTime(l) == int(l.leader[3])

EventIdx(f) == { i \in 1..Len(f) : IsEvent(f[i]) }
FirstIdx(S) == CHOOSE i \in S : \A j \in S : i <= j
\* The value of the first event of f (f has an event).
RefOf(f) == EventValue(f[FirstIdx(EventIdx(f))])
\* The events of f for one id, and the ids of f.
IdxOf(f, id) == { i \in EventIdx(f) : EventId(f[i]) = id }
IdsOf(f) == { EventId(f[i]) : i \in EventIdx(f) }
Agrees(f, i) == EventValue(f[i]) = RefOf(f)
\* The normal and the uncheck line of an event.
GoodLine(l) ==
    IF IsDecide(l) THEN NodeLine(EventId(l), EventValue(l), FALSE)
    ELSE LeaderLine(EventId(l), EventValue(l), l.leader[3], FALSE)
BadLine(l) ==
    IF IsDecide(l) THEN NodeLine(EventId(l), EventValue(l), TRUE)
    ELSE LeaderLine(EventId(l), EventValue(l), l.leader[3], TRUE)
\* The node entries and the kinds of the lines of a summary.
NodeEntries(s) == SelectSeq(s, LAMBDA e : e.kind = "node")
HasKind(s, k) == \E i \in 1..Len(s) : s[i].kind = k

\* ---------------------------------------------------------------- claims
\* C1: the debug output is exactly the DEBUG lines of the input, verbatim and
\* in input order, whatever the INFO counter is: it starts empty, every line
\* read is appended to it if and only if it starts with [DEBUG], and nothing
\* else changes it.
C1_DebugOutput ==
    /\ debug_file = <<>>
    /\ [][ debug_file' = IF pc' = "scan" /\ line'.tag = "DEBUG"
                         THEN Append(debug_file, line') ELSE debug_file ]_vars

\* Two different DEBUG lines were copied, the second after the threshold.
C1_Witness ==
    /\ Len(debug_file) = 2
    /\ debug_file[1] # debug_file[2]
    /\ line = debug_file[2]
    /\ info_count > 8

\* C2: the info output is exactly the INFO lines from the 9th on, verbatim and
\* in input order: it starts empty and a line read is appended to it if and
\* only if it starts with [INFO] and at least 8 INFO lines were read before.
C2_InfoOutput ==
    /\ info_file = <<>>
    /\ [][ info_file' = IF pc' = "scan" /\ line'.tag = "INFO" /\ infos_read >= 8
                        THEN Append(info_file, line') ELSE info_file ]_vars

\* The 9th and 10th INFO lines were copied, with DEBUG lines read among the
\* first eight.
C2_Witness ==
    /\ infos_read = 10
    /\ Len(info_file) = 2
    /\ Len(debug_file) = 2
    /\ line.tag = "NONE"

\* C3: if no event has a value different from the reference value, the
\* concurrency flag is true and the summary has no warning banner.
C3_NoDisagreementNoBanner ==
    (\A i \in EventIdx(info_file) : Agrees(info_file, i))
        => concurrency = TRUE /\ ~HasKind(summary_file, "banner")

\* A finished run with three agreeing events.
C3_Witness ==
    /\ pc = "done"
    /\ Cardinality(EventIdx(info_file)) = 3
    /\ \A i \in EventIdx(info_file) : Agrees(info_file, i)

\* C4: the concurrency flag starts true, becomes false at an event whose value
\* differs from the reference value, and once false stays false.
C4_FlagMonotone ==
    /\ concurrency = TRUE
    /\ [][ /\ concurrency = FALSE => concurrency' = FALSE
           /\ ( /\ Len(info_file') = Len(info_file) + 1
                /\ IsEvent(line')
                /\ EventValue(line') # RefOf(info_file') )
              => concurrency' = FALSE ]_vars

\* The flag is false and the last event read agrees with the reference value.
C4_Witness ==
    /\ concurrency = FALSE
    /\ Len(info_file) = 3
    /\ IsEvent(info_file[3])
    /\ Agrees(info_file, 3)

\* C5: for an id all of whose events carry the reference value, node_info
\* holds the normal line of the first event of that id, whichever pattern the
\* later events of the id matched.
C5_FirstOccurrenceWins ==
    \A id \in IdsOf(info_file) :
        (\A i \in IdxOf(info_file, id) : Agrees(info_file, i))
            => /\ id \in DOMAIN node_info
               /\ node_info[id] = GoodLine(info_file[FirstIdx(IdxOf(info_file, id))])

\* A finished run in which an id has a Decide event and then a Leader event,
\* both with the reference value.
C5_Witness ==
    /\ pc = "done"
    /\ \E i, j \in EventIdx(info_file) :
          /\ i < j
          /\ EventId(info_file[i]) = EventId(info_file[j])
          /\ IsDecide(info_file[i]) /\ IsLeader(info_file[j])
          /\ \A k \in IdxOf(info_file, EventId(info_file[i])) : Agrees(info_file, k)

\* C6: after an event whose value differs from the reference value, node_info
\* holds that event's uncheck line under its id and the id is marked seen.
C6_UncheckOverwrites ==
    LET n == Len(info_file)
    IN (n > 0 /\ IsEvent(info_file[n]) /\ ~Agrees(info_file, n))
        => /\ EventId(info_file[n]) \in node_number
           /\ EventId(info_file[n]) \in DOMAIN node_info
           /\ node_info[EventId(info_file[n])] = BadLine(info_file[n])

\* The last event disagrees and its id had an agreeing event before.
C6_Witness ==
    LET n == Len(info_file)
    IN /\ n > 0 /\ IsEvent(info_file[n]) /\ ~Agrees(info_file, n)
       /\ \E i \in IdxOf(info_file, EventId(info_file[n])) :
             i < n /\ Agrees(info_file, i)

\* C7: the node entries of the summary are in strictly ascending id order,
\* one entry for each id of the input.
C7_SortedEntries ==
    pc = "done" =>
        LET e == NodeEntries(summary_file)
        IN /\ \A i, j \in 1..Len(e) : i < j => e[i].text.id < e[j].text.id
           /\ { e[i].text.id : i \in 1..Len(e) } = IdsOf(info_file)
           /\ \A i \in 1..Len(e) : e[i].text = node_info[e[i].text.id]

\* A finished run with three ids that were read in descending order.
C7_Witness ==
    /\ pc = "done"
    /\ Len(NodeEntries(summary_file)) = 3
    /\ Len(info_file) = 3
    /\ EventId(info_file[1]) > EventId(info_file[2])
    /\ EventId(info_file[2]) > EventId(info_file[3])

\* The Leader events that count: reference value, id not seen before.
Counted(f) ==
    { i \in EventIdx(f) :
        /\ IsLeader(f[i])
        /\ Agrees(f, i)
        /\ \A j \in EventIdx(f) : j < i => EventId(f[j]) # EventId(f[i]) }

RECURSIVE SumTimes(_, _)
SumTimes(f, S) ==
    IF S = {} THEN 0
    ELSE LET i == CHOOSE x \in S : TRUE
         IN EventTime(f[i]) + SumTimes(f, S \ {i})

\* C8: time_sum and time_count are the sum and the number of the times of the
\* Leader events that carry the reference value and whose id was not seen
\* before; the average-time line is that sum divided by that count.
C8_TimingAccumulator ==
    /\ time_sum = SumTimes(info_file, Counted(info_file))
    /\ time_count = Cardinality(Counted(info_file))
    /\ pc = "done" =>
          \E i \in 1..Len(summary_file) :
             /\ summary_file[i] =
                   AverageLine(SumTimes(info_file, Counted(info_file)),
                               Cardinality(Counted(info_file)))
             /\ \A j \in 1..Len(summary_file) :
                   summary_file[j].kind = "average" => j = i

\* A finished run with a counted Leader event, a Leader event with another
\* value and a Leader event for an id seen before.
C8_Witness ==
    /\ pc = "done"
    /\ time_count = 1
    /\ \E i, j \in EventIdx(info_file) :
          /\ IsLeader(info_file[i]) /\ ~Agrees(info_file, i)
          /\ IsLeader(info_file[j]) /\ Agrees(info_file, j)
          /\ j \notin Counted(info_file)

\* C9: a run that ends with time_count = 0 ends in the reported error
\* "no timing samples", and writes no average-time line.
C9_NoTimingSamplesReported ==
    (pc # "scan" /\ time_count = 0)
        => error = "NoTimingSamples" /\ ~HasKind(summary_file, "average")

\* C10: the reference value is unset until the first event, is the value of
\* the first event from then on, never changes once set, and is what an
\* event is compared against (seen on the first event of an id, when it is
\* the line read last).
C10_ReferenceSetOnce ==
    /\ [](IF EventIdx(info_file) = {}
          THEN decide_value = NoValue /\ decide_value_write = FALSE
          ELSE /\ decide_value = RefOf(info_file)
               /\ decide_value_write = TRUE
               /\ \A id \in IdsOf(info_file) :
                     LET i == FirstIdx(IdxOf(info_file, id))
                     IN Len(info_file) = i =>
                           (node_info[id].uncheck
                               <=> EventValue(info_file[i]) # RefOf(info_file)))
    /\ [][ decide_value_write = TRUE
             => decide_value' = decide_value /\ decide_value_write' = TRUE ]_vars

\* The reference value is set and the last event read has another value.
C10_Witness ==
    /\ decide_value_write = TRUE
    /\ Len(info_file) = 3
    /\ IsEvent(info_file[3])
    /\ EventValue(info_file[3]) # decide_value
    /\ EventValue(info_file[2]) = decide_value

\* The last event of f for id whose value differs from the reference value.
LastDisagreeing(f, id) ==
    CHOOSE i \in IdxOf(f, id) :
        /\ ~Agrees(f, i)
        /\ \A j \in IdxOf(f, id) : ~Agrees(f, j) => j <= i

\* The step appends an INFO line to info_file, that is, pattern-matches it.
Matched == Len(info_file') = Len(info_file) + 1

\* C11: once an id has an uncheck entry, an event of that id with the
\* reference value is dropped: the entry stays the uncheck line of the last
\* disagreeing event of the id, and the step changes neither node_info nor the
\* timing sum and count.
C11_UncheckSticks ==
    /\ [](\A id \in IdsOf(info_file) :
            (\E i \in IdxOf(info_file, id) : ~Agrees(info_file, i))
                => node_info[id] = BadLine(info_file[LastDisagreeing(info_file, id)]))
    /\ [][ ( /\ Matched
             /\ IsEvent(line')
             /\ EventValue(line') = RefOf(info_file')
             /\ EventId(line') \in DOMAIN node_info
             /\ node_info[EventId(line')].uncheck )
           => /\ node_info' = node_info
              /\ time_sum' = time_sum
              /\ time_count' = time_count ]_vars

\* The line read last is a Leader event with the reference value for an id
\* whose entry is an uncheck line.
C11_Witness ==
    LET n == Len(info_file)
    IN /\ n > 0
       /\ line = info_file[n]
       /\ IsLeader(line)
       /\ Agrees(info_file, n)
       /\ node_info[EventId(line)].uncheck

\* C12: an INFO line among the first 8 is not pattern-matched, whatever its
\* shape: it only increments info_count; the 9th INFO line, when it is an
\* event, sets the reference value, which was unset until then.
C12_SkippedLinesNotMatched ==
    [][ /\ (infos_read' = infos_read + 1 /\ infos_read < 8)
           => /\ UNCHANGED << decide_value, decide_value_write, node_number,
                              node_info, concurrency, time_sum, time_count,
                              info_file, debug_file >>
              /\ info_count' = info_count + 1
        /\ (infos_read' = infos_read + 1 /\ infos_read = 8 /\ IsEvent(line'))
           => /\ decide_value_write = FALSE
              /\ decide_value' = EventValue(line')
              /\ decide_value_write' = TRUE ]_vars

\* The 8th INFO line was a DECIDE-shaped or leader-shaped line and the
\* reference value is unset.
C12_Witness ==
    /\ infos_read = 8
    /\ line.tag = "INFO"
    /\ IsEvent(line)
    /\ decide_value = NoValue
    /\ node_number = {}

\* C13: a pattern-matched line that matches pattern1 is processed as a Decide
\* event only, also when it matches pattern2: its actor id is marked seen, the
\* only entry that can change is the actor's and it becomes a NODE line, and
\* the timing sum and count are unchanged.  A line is processed as a Leader
\* event only when pattern1 does not match.  A line marks at most one id.
C13_DecideFirst ==
    [][ Matched =>
          /\ line'.decide # NoMatch =>
                LET actor == int(line'.decide[1])
                IN /\ node_number' = node_number \cup {actor}
                   /\ time_sum' = time_sum /\ time_count' = time_count
                   /\ \A k \in DOMAIN node_info' :
                         \/ k \in DOMAIN node_info /\ node_info'[k] = node_info[k]
                         \/ k = actor /\ node_info'[k].label = "NODE"
          /\ (line'.decide = NoMatch /\ line'.leader # NoMatch) =>
                LET process == int(line'.leader[1])
                IN /\ node_number' = node_number \cup {process}
                   /\ \A k \in DOMAIN node_info' :
                         \/ k \in DOMAIN node_info /\ node_info'[k] = node_info[k]
                         \/ k = process /\ node_info'[k].label = "LEADER"
          /\ (line'.decide = NoMatch /\ line'.leader = NoMatch) =>
                node_number' = node_number /\ node_info' = node_info
          /\ Cardinality(node_number' \ node_number) <= 1 ]_vars

\* The line read last matches both patterns and was recorded as a NODE line
\* under its actor id; its process id is not seen and nothing was timed.
C13_Witness ==
    LET n == Len(info_file)
    IN /\ n > 0
       /\ line = info_file[n]
       /\ line.decide # NoMatch /\ line.leader # NoMatch
       /\ node_info[int(line.decide[1])] = GoodLine(line)
       /\ node_info[int(line.decide[1])].label = "NODE"
       /\ int(line.leader[1]) \notin node_number
       /\ time_count = 0

\* C14: a pattern-matched INFO line that matches neither pattern is appended
\* to the info output and changes nothing else but info_count; a line with
\* neither tag changes no state and goes to no output.
C14_UnmatchedLines ==
    [][ /\ (Matched /\ ~IsEvent(line'))
           => /\ info_file' = Append(info_file, line')
              /\ info_count' = info_count + 1
              /\ UNCHANGED << decide_value, decide_value_write, node_number,
                              node_info, concurrency, time_sum, time_count,
                              debug_file, summary_file >>
        /\ (pc' = "scan" /\ line'.tag = "NONE")
           => UNCHANGED << info_count, decide_value, decide_value_write,
                           node_number, node_info, concurrency, time_sum,
                           time_count, info_file, debug_file, summary_file >> ]_vars

\* An untagged line was read last, after an INFO line that matches neither
\* pattern was copied behind an event.
C14_Witness ==
    /\ line \in UntaggedLines
    /\ Len(info_file) = 2
    /\ IsEvent(info_file[1])
    /\ ~IsEvent(info_file[2])
    /\ info_count = 10

\* C15: nothing is written to the summary during the scan; in a run that
\* completes the summary is the banner (only when the flag is false), the
\* average-time line, the parameter header, every line of the parameter file
\* in order, the node header, then the node entries and nothing else.
C15_SummaryOrder ==
    /\ pc = "scan" => summary_file = <<>>
    /\ pc = "done" =>
          LET b == IF concurrency = FALSE THEN 1 ELSE 0
              p == Len(param_read)
              s == summary_file
          IN /\ Len(s) = b + 3 + p + Cardinality(DOMAIN node_info)
             /\ b = 1 => s[1].kind = "banner"
             /\ s[b + 1].kind = "average"
             /\ s[b + 2].kind = "paramheader"
             /\ \A i \in 1..p :
                   s[b + 2 + i].kind = "param" /\ s[b + 2 + i].text = param_read[i]
             /\ s[b + 3 + p].kind = "nodeheader"
             /\ \A i \in 1..Len(s) : i > b + 3 + p <=> s[i].kind = "node"

\* A finished run with the banner, two parameter lines and two node entries.
C15_Witness ==
    /\ pc = "done"
    /\ concurrency = FALSE
    /\ Len(param_read) = 2
    /\ Len(NodeEntries(summary_file)) = 2

\* C16: the keys of node_info are exactly the ids marked seen.
C16_KeysAreSeen ==
    DOMAIN node_info = node_number

\* Three ids are seen, one of them through an uncheck line only.
C16_Witness ==
    /\ Cardinality(node_number) = 3
    /\ \E id \in node_number :
          /\ node_info[id].uncheck
          /\ Cardinality(IdxOf(info_file, id)) = 1

\* C17: the concurrency flag is false exactly when node_info holds an uncheck
\* line, so a finished summary has the banner exactly when it lists an
\* uncheck entry.
C17_FlagIffUncheck ==
    /\ concurrency = FALSE <=> \E id \in DOMAIN node_info : node_info[id].uncheck
    /\ pc = "done" =>
          LET e == NodeEntries(summary_file)
          IN HasKind(summary_file, "banner")
                <=> \E i \in 1..Len(e) : e[i].text.uncheck

\* A finished run whose summary has the banner, an uncheck entry and a normal
\* entry.
C17_Witness ==
    /\ pc = "done"
    /\ HasKind(summary_file, "banner")
    /\ \E i, j \in 1..Len(NodeEntries(summary_file)) :
          /\ NodeEntries(summary_file)[i].text.uncheck
          /\ ~NodeEntries(summary_file)[j].text.uncheck

\* C18: the first event is recorded with its normal line and leaves the flag
\* true whatever its value; an uncheck line is the line of a later event.
C18_FirstEventConsistent ==
    LET E == EventIdx(info_file)
    IN /\ Cardinality(E) = 1 =>
            LET l == info_file[FirstIdx(E)]
            IN /\ concurrency = TRUE
               /\ DOMAIN node_info = {EventId(l)}
               /\ node_info[EventId(l)] = GoodLine(l)
       /\ \A id \in DOMAIN node_info :
             node_info[id].uncheck =>
                \E i \in E : i > FirstIdx(E) /\ node_info[id] = BadLine(info_file[i])

\* A finished run whose only event carries the value 9.
C18_Witness ==
    /\ pc = "done"
    /\ Cardinality(EventIdx(info_file)) = 1
    /\ RefOf(info_file) = <<9>>

\* The ids whose first event is a Leader event with the reference value.
Sampled(f) ==
    { id \in IdsOf(f) :
        LET i == FirstIdx(IdxOf(f, id)) IN IsLeader(f[i]) /\ Agrees(f, i) }

\* C19: every id contributes at most one sample: time_count is the number of
\* ids whose first event is a Leader event with the reference value, so it is
\* at most the number of seen ids; the count and the sum never decrease, also
\* when a sampled id's entry is overwritten by an uncheck line.
C19_OneSamplePerId ==
    /\ [](/\ time_count = Cardinality(Sampled(info_file))
          /\ time_count <= Cardinality(node_number))
    /\ [][ time_count' >= time_count /\ time_sum' >= time_sum ]_vars

\* A sampled id whose entry is now an uncheck line, its sample still counted.
C19_Witness ==
    /\ time_count = 1
    /\ \E id \in Sampled(info_file) : node_info[id].uncheck

====
